---- MODULE Spec2Model ----
(***************************************************************************)
(* Model of package slice (github.com/agmeeder/slice): the generic        *)
(* Slice[T] type and its Javascript-like methods, src/slice.go.           *)
(*                                                                         *)
(* A Slice[T] is a Go slice: a header (array, offset, length, capacity)   *)
(* over a backing array on the heap.  The model keeps the heap, the       *)
(* header of a receiver `s` and the header of the sequence most recently  *)
(* returned by a copy-producing method, `r`, so that aliasing between the *)
(* two is something the model can exhibit.  T is an 8-byte integer; less, *)
(* match and change are drawn from small families of functions.           *)
(*                                                                         *)
(* Spec is a session: any sequence of calls on s and r.  SpecCall is one   *)
(* call, with the whole range of arguments, on any receiver.               *)
(***************************************************************************)
EXTENDS Integers, Sequences, FiniteSets, TLC

VARIABLES heap, s, r, last

vars == <<heap, s, r, last>>

(***************************************************************************)
(* Bounds of the model.                                                    *)
(***************************************************************************)
\* longest receiver the single-call specification starts from
MaxLen == 3
\* longest sequence a growing call is applied to in the session specification
SessionLen == 2

(***************************************************************************)
(* The element type T and Go's int.                                        *)
(***************************************************************************)
Values == 0..2

\* the values the calls of a session are made with
SessionValues == {0, 1}

\* the zero value of T (var e T)
Zero == 0

\* Go's int on a 32-bit GOARCH; on a 64-bit one the same wrap-around
\* happens at 2^63
MaxInt == 2147483647

MinInt == -MaxInt - 1

\* a + b in Go's int: two's complement wrap-around, no panic
AddInt(a, b) ==
    IF a > 0 /\ b > MaxInt - a THEN (a - MaxInt - 1) + (b - MaxInt - 1)
    ELSE IF a < 0 /\ b < MinInt - a THEN (a + MaxInt + 1) + (b + MaxInt + 1)
    ELSE a + b

(***************************************************************************)
(* Sequences helpers.                                                      *)
(***************************************************************************)
SeqsUpTo(n, vals) == UNION {[1..k -> vals] : k \in 0..n}

Zeros(n) == [i \in 1..n |-> Zero]

RECURSIVE Flatten(_)
Flatten(ss) == IF ss = <<>> THEN <<>> ELSE Head(ss) \o Flatten(Tail(ss))

(***************************************************************************)
(* Go slices: headers over backing arrays.                                 *)
(* heap is a sequence of arrays; a header names its array by index, 0 for  *)
(* the zero-capacity slice (nil, Slice[T]{} or make(Slice[T], 0)).         *)
(* x.cap counts from x.off, as cap() does.                                 *)
(***************************************************************************)
EmptySlice == [arr |-> 0, off |-> 0, len |-> 0, cap |-> 0]

\* no sequence has been returned yet
NoSlice == [arr |-> -1, off |-> 0, len |-> 0, cap |-> 0]

Has(x) == x.arr >= 0

\* the elements of x, in order
Read(h, x) == [i \in 1..x.len |-> h[x.arr][x.off + i]]

\* an outcome of a method: ok = FALSE is a run-time panic
Ok(h, x) == [ok |-> TRUE, h |-> h, x |-> x, e |-> Zero]

Panic(h) == [ok |-> FALSE, h |-> h, x |-> EmptySlice, e |-> Zero]

\* the outcome res, returning the element e
Returning(res, e) == [res EXCEPT !.e = e]

\* x[lo:hi]; Go panics unless 0 <= lo <= hi <= cap(x)
Reslice(h, x, lo, hi) ==
    IF 0 <= lo /\ lo <= hi /\ hi <= x.cap
    THEN Ok(h, [arr |-> x.arr, off |-> x.off + lo, len |-> hi - lo, cap |-> x.cap - lo])
    ELSE Panic(h)

\* capacities the allocator hands out for 8-byte elements (size classes)
RoundUpCap(n) ==
    IF n <= 4 THEN n ELSE IF n % 2 = 0 THEN n ELSE n + 1

\* runtime growslice: the capacity of the array append allocates
GrowCap(old, needed) ==
    RoundUpCap(IF needed > 2 * old THEN needed ELSE 2 * old)

\* a new array holding vs, of capacity c >= Len(vs), the rest zeroed
Alloc(h, vs, c) ==
    IF c = 0 THEN Ok(h, EmptySlice)
    ELSE Ok(Append(h, vs \o Zeros(c - Len(vs))),
            [arr |-> Len(h) + 1, off |-> 0, len |-> Len(vs), cap |-> c])

\* the composite literal Slice[T]{vs...}
Literal(h, vs) == Alloc(h, vs, Len(vs))

\* append(x, vs...): in place when the capacity allows, else into a new array
GoAppend(h, x, vs) ==
    IF x.len + Len(vs) <= x.cap
    THEN IF vs = <<>> THEN Ok(h, x)
         ELSE Ok([h EXCEPT ![x.arr] =
                     [i \in 1..Len(@) |->
                        IF i > x.off + x.len /\ i <= x.off + x.len + Len(vs)
                        THEN vs[i - x.off - x.len] ELSE @[i]]],
                 [x EXCEPT !.len = x.len + Len(vs)])
    ELSE Alloc(h, Read(h, x) \o vs, GrowCap(x.cap, x.len + Len(vs)))

\* x[i] = vs[i] for every index of x
Store(h, x, vs) ==
    IF x.len = 0 THEN h
    ELSE [h EXCEPT ![x.arr] =
            [i \in 1..Len(@) |->
               IF i > x.off /\ i <= x.off + x.len THEN vs[i - x.off] ELSE @[i]]]

(***************************************************************************)
(* The caller's functions: less, match and change.                         *)
(***************************************************************************)
\* less: a strict weak order comparing a \div d; d = 1 is a total order,
\* larger d makes distinct elements equivalent
LessFns == 1..3

SessionLessFns == {1}

Less(d, a, b) == (a \div d) < (b \div d)

\* match: membership of a set of values
Match(p, v) == v \in p

\* change: raise the element to at least c
Change(c, v) == IF v < c THEN c ELSE v

(***************************************************************************)
(* The methods of Slice[T].  Each takes the heap and the receiver's header *)
(* and gives the outcome: the heap after it and, in x, the receiver's new  *)
(* header (methods that modify the receiver) or the header of the          *)
(* returned slice (methods that return a new one).                         *)
(***************************************************************************)
RECURSIVE AppendEach(_, _, _)
\* for _, element := range elements { x = append(x, element...) }
AppendEach(h, x, elements) ==
    IF elements = <<>> THEN Ok(h, x)
    ELSE LET a == GoAppend(h, x, Read(h, Head(elements)))
         IN  AppendEach(a.h, a.x, Tail(elements))

Concat(h, x, elements) ==
    LET newSlice == GoAppend(h, EmptySlice, Read(h, x))
    IN  AppendEach(newSlice.h, newSlice.x, elements)

\* mutant: only the first argument is appended
MergeFirstOnly(h, x, items) ==
    AppendEach(h, x, IF items = <<>> THEN <<>> ELSE <<Head(items)>>)

Merge(h, x, items) == AppendEach(h, x, items)

Pop(h, x) ==
    LET l == x.len
    IN  IF l > 0
        THEN Returning(Reslice(h, x, 0, l - 1), Read(h, x)[l])
        ELSE Ok(h, x)

Push(h, x, item) == GoAppend(h, x, <<item>>)

\* mutant: the reslice of Pop, (*s)[:l-1], in Shift
ShiftDropsLast(h, x) ==
    LET l == x.len
    IN  IF l > 0
        THEN Returning(Reslice(h, x, 0, l - 1), Read(h, x)[1])
        ELSE Ok(h, x)

Shift(h, x) ==
    LET l == x.len
    IN  IF l > 0
        THEN Returning(Reslice(h, x, 1, l), Read(h, x)[1])
        ELSE Ok(h, x)

Splice(h, x, start0, deleteCount, elements) ==
    LET l      == x.len
        start1 == IF start0 > l THEN l ELSE start0
        start  == IF start1 < 0 THEN 0 ELSE start1
        end0   == AddInt(start, deleteCount)
        end    == IF end0 > l THEN l ELSE end0
        low    == Reslice(h, x, 0, start)
        high   == Reslice(h, x, end, l)
    IN  IF ~low.ok THEN Panic(h)
        ELSE LET r1 == GoAppend(h, EmptySlice, Read(h, low.x))
                 r2 == GoAppend(r1.h, r1.x, elements)
             IN  IF ~high.ok THEN Panic(h)
                 ELSE GoAppend(r2.h, r2.x, Read(r2.h, high.x))

\* mutant: a deleteCount of 2
SliceTwo(h, x, index) == Splice(h, x, index, 2, <<>>)

Slice(h, x, index) == Splice(h, x, index, 1, <<>>)

\* mutant: without the lower clamp of start
ToSplicedNoLowClamp(h, x, start0, deleteCount, elements) ==
    LET l      == x.len
        start  == IF start0 > l THEN l ELSE start0
        end0   == AddInt(start, deleteCount)
        end    == IF end0 > l THEN l ELSE end0
        low    == Reslice(h, x, 0, start)
        high   == Reslice(h, x, end, l)
    IN  IF ~low.ok THEN Panic(h)
        ELSE LET r1 == GoAppend(h, EmptySlice, Read(h, low.x))
                 r2 == GoAppend(r1.h, r1.x, elements)
             IN  IF ~high.ok THEN Panic(h)
                 ELSE GoAppend(r2.h, r2.x, Read(r2.h, high.x))

ToSpliced(h, x, start0, deleteCount, elements) ==
    LET l      == x.len
        start1 == IF start0 > l THEN l ELSE start0
        start  == IF start1 < 0 THEN 0 ELSE start1
        end0   == AddInt(start, deleteCount)
        end    == IF end0 > l THEN l ELSE end0
        low    == Reslice(h, x, 0, start)
        high   == Reslice(h, x, end, l)
    IN  IF ~low.ok THEN Panic(h)
        ELSE LET r1 == GoAppend(h, EmptySlice, Read(h, low.x))
                 r2 == GoAppend(r1.h, r1.x, elements)
             IN  IF ~high.ok THEN Panic(h)
                 ELSE GoAppend(r2.h, r2.x, Read(r2.h, high.x))

\* mutant: a negative index counts from the end
ToSlicedFromEnd(h, x, index) ==
    LET spliced == ToSpliced(h, x, IF index < 0 THEN AddInt(x.len, index) ELSE index,
                             1, <<>>)
    IN  IF ~spliced.ok THEN Panic(h)
        ELSE GoAppend(spliced.h, EmptySlice, Read(spliced.h, spliced.x))

ToSliced(h, x, index) ==
    LET spliced == ToSpliced(h, x, index, 1, <<>>)
    IN  IF ~spliced.ok THEN Panic(h)
        ELSE GoAppend(spliced.h, EmptySlice, Read(spliced.h, spliced.x))

UnShift(h, x, item) ==
    LET lit == Literal(h, <<item>>)
    IN  GoAppend(lit.h, lit.x, Read(h, x))

(***************************************************************************)
(* sort.SliceStable on at most 20 elements is an insertion sort driven by  *)
(* the closure the method passes, which reads the slice being sorted.      *)
(***************************************************************************)
\* mutant: less-or-equal, !less(v[j], v[i])
SortLessOrEqual(d, v, i, j) == ~Less(d, v[j], v[i])

\* the closures of Sort and ToSorted: less(v[i], v[j])
SortLess(d, v, i, j) == Less(d, v[i], v[j])

\* mutant: the arguments not exchanged
ReverseLessUnswapped(d, v, i, j) == Less(d, v[i], v[j])

\* the closures of Reverse and ToReversed: less(v[j], v[i])
ReverseLess(d, v, i, j) == Less(d, v[j], v[i])

Swap(v, i, j) == [v EXCEPT ![i] = v[j], ![j] = v[i]]

RECURSIVE Sink(_, _, _, _)
\* for j := i; j > a && less(j, j-1); j-- { swap(j, j-1) }
Sink(v, j, d, rev) ==
    IF j > 1 /\ (IF rev THEN ReverseLess(d, v, j, j - 1) ELSE SortLess(d, v, j, j - 1))
    THEN Sink(Swap(v, j, j - 1), j - 1, d, rev)
    ELSE v

RECURSIVE InsertionSort(_, _, _, _)
\* for i := a + 1; i < b; i++ { ... }
InsertionSort(v, i, d, rev) ==
    IF i > Len(v) THEN v
    ELSE InsertionSort(Sink(v, i, d, rev), i + 1, d, rev)

SliceStable(v, d, rev) == InsertionSort(v, 2, d, rev)

Sort(h, x, d) == Ok(Store(h, x, SliceStable(Read(h, x), d, FALSE)), x)

\* mutant: result := *s, sorted where it is
ToSortedInPlace(h, x, d) == Sort(h, x, d)

ToSorted(h, x, d) ==
    LET result == GoAppend(h, EmptySlice, Read(h, x))
    IN  Ok(Store(result.h, result.x, SliceStable(Read(result.h, result.x), d, FALSE)),
           result.x)

Reverse(h, x, d) == Ok(Store(h, x, SliceStable(Read(h, x), d, TRUE)), x)

ToReversed(h, x, d) ==
    LET result == GoAppend(h, EmptySlice, Read(h, x))
    IN  Ok(Store(result.h, result.x, SliceStable(Read(result.h, result.x), d, TRUE)),
           result.x)

RECURSIVE FilterFrom(_, _, _, _, _)
\* for _, v := range s { if match(v) { result = append(result, v) } }
FilterFrom(h, x, i, p, result) ==
    IF i > x.len THEN Ok(h, result)
    ELSE LET v == Read(h, x)[i]
         IN  IF Match(p, v)
             THEN LET a == GoAppend(h, result, <<v>>)
                  IN  FilterFrom(a.h, x, i + 1, p, a.x)
             ELSE FilterFrom(h, x, i + 1, p, result)

Filter(h, x, p) == FilterFrom(h, x, 1, p, EmptySlice)

\* mutant: a copy of the receiver, change not applied
MapUnchanged(h, x, c) == Alloc(h, Read(h, x), x.len)

Map(h, x, c) ==
    Alloc(h, [i \in 1..x.len |-> Change(c, Read(h, x)[i])], x.len)

(***************************************************************************)
(* The search methods.  Each is a loop over the receiver that returns at   *)
(* the first element match accepts; i is the loop's index.                 *)
(***************************************************************************)
\* what Find and FindLast return: (element, true) or (zero value, false)
Found(e) == [e |-> e, found |-> TRUE]

NotFound == [e |-> Zero, found |-> FALSE]

RECURSIVE FindFrom(_, _, _, _)
\* for _, element := range s { if match(element) { return element, true } }
FindFrom(h, x, i, p) ==
    IF i >= x.len THEN NotFound
    ELSE IF Match(p, Read(h, x)[i + 1]) THEN Found(Read(h, x)[i + 1])
    ELSE FindFrom(h, x, i + 1, p)

Find(h, x, p) == FindFrom(h, x, 0, p)

RECURSIVE FindLastFrom(_, _, _, _)
\* for i := len(s) - 1; i >= 0; i-- { if match(s[i]) { return s[i], true } }
FindLastFrom(h, x, i, p) ==
    IF i < 0 THEN NotFound
    ELSE IF Match(p, Read(h, x)[i + 1]) THEN Found(Read(h, x)[i + 1])
    ELSE FindLastFrom(h, x, i - 1, p)

FindLast(h, x, p) == FindLastFrom(h, x, x.len - 1, p)

RECURSIVE IncludesFrom(_, _, _, _)
\* for _, element := range s { if match(element) { return true } }
IncludesFrom(h, x, i, p) ==
    IF i >= x.len THEN FALSE
    ELSE IF Match(p, Read(h, x)[i + 1]) THEN TRUE
    ELSE IncludesFrom(h, x, i + 1, p)

Includes(h, x, p) == IncludesFrom(h, x, 0, p)

RECURSIVE IndexOfFrom(_, _, _, _)
\* for i, element := range s { if match(element) { return i } }
IndexOfFrom(h, x, i, p) ==
    IF i >= x.len THEN -1
    ELSE IF Match(p, Read(h, x)[i + 1]) THEN i
    ELSE IndexOfFrom(h, x, i + 1, p)

IndexOf(h, x, p) == IndexOfFrom(h, x, 0, p)

RECURSIVE LastIndexOfFrom(_, _, _, _)
\* for i := len(s) - 1; i >= 0; i-- { if match(s[i]) { return i } }
LastIndexOfFrom(h, x, i, p) ==
    IF i < 0 THEN -1
    ELSE IF Match(p, Read(h, x)[i + 1]) THEN i
    ELSE LastIndexOfFrom(h, x, i - 1, p)

\* mutant: the scan of IndexOf, from the front
LastIndexOfForward(h, x, p) == IndexOfFrom(h, x, 0, p)

LastIndexOf(h, x, p) == LastIndexOfFrom(h, x, x.len - 1, p)

(***************************************************************************)
(* The state: the heap, the receiver s, the returned sequence r (NoSlice   *)
(* until a method returns one) and a record of the last call.              *)
(***************************************************************************)
Contents(x) == IF Has(x) THEN Read(heap, x) ELSE <<>>

Hdr(tgt) == IF tgt = "s" THEN s ELSE r

\* Arrays no header reaches are dropped, the others renumbered (s's first),
\* and the cells no header shows (outside every [off, off+len)), which no
\* method reads before writing, are zeroed: addresses and dead cells are
\* not observable.
Reach(x) == Has(x) /\ x.cap > 0

ArrayIds(sx, rx) ==
    (IF Reach(sx) THEN <<sx.arr>> ELSE <<>>) \o
    (IF Reach(rx) /\ ~(Reach(sx) /\ sx.arr = rx.arr) THEN <<rx.arr>> ELSE <<>>)

On(a, sx, rx) == {x \in {sx, rx} : Reach(x) /\ x.arr = a}

Lo(a, sx, rx) == CHOOSE m \in {x.off : x \in On(a, sx, rx)} :
                    \A x \in On(a, sx, rx) : m <= x.off

Hi(a, sx, rx) == CHOOSE m \in {x.off + x.cap : x \in On(a, sx, rx)} :
                    \A x \in On(a, sx, rx) : m >= x.off + x.cap

NormArray(h, a, sx, rx) ==
    LET lo == Lo(a, sx, rx)
        hi == Hi(a, sx, rx)
    IN  [i \in 1..(hi - lo) |->
           IF \E x \in On(a, sx, rx) : x.off < lo + i /\ lo + i <= x.off + x.len
           THEN h[a][lo + i] ELSE Zero]

NormHeap(h, sx, rx) ==
    LET ids == ArrayIds(sx, rx)
    IN  [k \in 1..Len(ids) |-> NormArray(h, ids[k], sx, rx)]

NormHeader(x, sx, rx) ==
    IF ~Has(x) THEN NoSlice
    ELSE IF x.cap = 0 THEN EmptySlice
    ELSE LET ids == ArrayIds(sx, rx)
         IN  [arr |-> CHOOSE k \in 1..Len(ids) : ids[k] = x.arr,
              off |-> x.off - Lo(x.arr, sx, rx),
              len |-> x.len,
              cap |-> x.cap]

\* the call op on receiver tgt with arguments a, b, el, items ended with
\* outcome res, whose slice goes to dst; a panic leaves the slices as they were
Commit(op, tgt, dst, res, a, b, el, items) ==
    LET sx == IF res.ok /\ dst = "s" THEN res.x ELSE s
        rx == IF res.ok /\ dst = "r" THEN res.x ELSE r
        h  == IF res.ok THEN res.h ELSE heap
    IN  /\ heap' = NormHeap(h, sx, rx)
        /\ s' = NormHeader(sx, sx, rx)
        /\ r' = NormHeader(rx, sx, rx)
        /\ last' = [op |-> op, tgt |-> tgt, ok |-> res.ok,
                    pre |-> Contents(Hdr(tgt)),
                    a |-> a, b |-> b, el |-> el, items |-> items,
                    e |-> IF res.ok THEN res.e ELSE Zero,
                    found |-> FALSE, idx |-> 0]

\* the search op on receiver tgt with argument match returned the element
\* e, the flag found or the index idx; nothing is assigned to a slice
Answer(op, tgt, match, e, found, idx) ==
    /\ UNCHANGED <<heap, s, r>>
    /\ last' = [op |-> op, tgt |-> tgt, ok |-> TRUE,
                pre |-> Contents(Hdr(tgt)),
                a |-> 0, b |-> 0, el |-> <<>>, items |-> <<match>>,
                e |-> e, found |-> found, idx |-> idx]

Receivers == {"s", "r"}

(***************************************************************************)
(* The arguments the calls are made with.  wide = TRUE: the single-call    *)
(* specification; wide = FALSE: the session specification.                 *)
(***************************************************************************)
\* a session is kept within SessionLen: a call that adds elements is made
\* when n, the length the elements add up to, is within the bound
Room(wide, n) == wide \/ n <= SessionLen

Items(wide) == IF wide THEN Values ELSE SessionValues

Lesses(wide) == IF wide THEN LessFns ELSE SessionLessFns

MatchFns(wide) == IF wide THEN SUBSET Values ELSE {{1}, SessionValues}

ChangeFns(wide) == Items(wide)

Starts(wide) ==
    IF wide THEN {MinInt, -5, -1, 10, MaxInt} \cup 0..(MaxLen + 1)
    ELSE {-1, 1}

Counts(wide) ==
    IF wide THEN {MinInt, -2, -1, 100, MaxInt} \cup 0..(MaxLen + 1)
    ELSE {1}

Elements(wide) ==
    IF wide THEN {<<>>, <<1>>, <<2, 0>>} ELSE {<<>>, <<1>>}

\* an argument of Concat and Merge: a literal, or the receiver itself
Lit(vs) == [self |-> FALSE, vs |-> vs]

Self == [self |-> TRUE, vs |-> <<>>]

ArgLists(wide) ==
    IF wide
    THEN LET A == {Lit(<<>>), Lit(<<1>>), Lit(<<2, 0>>), Self}
         IN  {<<>>} \cup {<<x>> : x \in A} \cup {<<x, y>> : x \in A, y \in A}
    ELSE {<<>>, <<Lit(<<1>>)>>, <<Lit(<<0>>), Self>>}

RECURSIVE MakeArgs(_, _, _)
\* the caller builds the argument slices: [h: the heap, xs: their headers]
MakeArgs(h, x, args) ==
    IF args = <<>> THEN [h |-> h, xs |-> <<>>]
    ELSE LET first == IF Head(args).self THEN Ok(h, x) ELSE Literal(h, Head(args).vs)
             rest  == MakeArgs(first.h, x, Tail(args))
         IN  [h |-> rest.h, xs |-> <<first.x>> \o rest.xs]

ArgContents(h, xs) == [k \in 1..Len(xs) |-> Read(h, xs[k])]

\* a call is made on an existing slice: any number of calls in a session,
\* one in SpecCall
MayCall(wide, tgt) ==
    /\ Has(Hdr(tgt))
    /\ wide => last.op = "init"

(***************************************************************************)
(* The calls.                                                              *)
(***************************************************************************)
PushAct(wide, tgt) ==
    /\ MayCall(wide, tgt)
    /\ Room(wide, Hdr(tgt).len + 1)
    /\ \E item \in Items(wide) :
          Commit("Push", tgt, tgt, Push(heap, Hdr(tgt), item), item, 0, <<>>, <<>>)

PopAct(wide, tgt) ==
    /\ MayCall(wide, tgt)
    /\ Commit("Pop", tgt, tgt, Pop(heap, Hdr(tgt)), 0, 0, <<>>, <<>>)

ShiftAct(wide, tgt) ==
    /\ MayCall(wide, tgt)
    /\ Commit("Shift", tgt, tgt, Shift(heap, Hdr(tgt)), 0, 0, <<>>, <<>>)

UnShiftAct(wide, tgt) ==
    /\ MayCall(wide, tgt)
    /\ Room(wide, Hdr(tgt).len + 1)
    /\ \E item \in Items(wide) :
          Commit("UnShift", tgt, tgt, UnShift(heap, Hdr(tgt), item), item, 0, <<>>, <<>>)

SliceAct(wide, tgt) ==
    /\ MayCall(wide, tgt)
    /\ \E index \in Starts(wide) :
          Commit("Slice", tgt, tgt, Slice(heap, Hdr(tgt), index), index, 0, <<>>, <<>>)

SpliceAct(wide, tgt) ==
    /\ MayCall(wide, tgt)
    /\ \E start \in Starts(wide), deleteCount \in Counts(wide), elements \in Elements(wide) :
          /\ Room(wide, Hdr(tgt).len + Len(elements))
          /\ Commit("Splice", tgt, tgt,
                    Splice(heap, Hdr(tgt), start, deleteCount, elements),
                    start, deleteCount, elements, <<>>)

MergeAct(wide, tgt) ==
    /\ MayCall(wide, tgt)
    /\ \E args \in ArgLists(wide) :
          LET items == MakeArgs(heap, Hdr(tgt), args)
          IN  /\ Room(wide, Hdr(tgt).len + Len(Flatten(ArgContents(items.h, items.xs))))
              /\ Commit("Merge", tgt, tgt, Merge(items.h, Hdr(tgt), items.xs),
                     0, 0, <<>>, ArgContents(items.h, items.xs))

SortAct(wide, tgt) ==
    /\ MayCall(wide, tgt)
    /\ \E less \in Lesses(wide) :
          Commit("Sort", tgt, tgt, Sort(heap, Hdr(tgt), less), less, 0, <<>>, <<>>)

ReverseAct(wide, tgt) ==
    /\ MayCall(wide, tgt)
    /\ \E less \in Lesses(wide) :
          Commit("Reverse", tgt, tgt, Reverse(heap, Hdr(tgt), less), less, 0, <<>>, <<>>)

ConcatAct(wide) ==
    /\ MayCall(wide, "s")
    /\ \E args \in ArgLists(wide) :
          LET elements == MakeArgs(heap, s, args)
          IN  /\ Room(wide, s.len + Len(Flatten(ArgContents(elements.h, elements.xs))))
              /\ Commit("Concat", "s", "r", Concat(elements.h, s, elements.xs),
                     0, 0, <<>>, ArgContents(elements.h, elements.xs))

ToSlicedAct(wide) ==
    /\ MayCall(wide, "s")
    /\ \E index \in Starts(wide) :
          Commit("ToSliced", "s", "r", ToSliced(heap, s, index), index, 0, <<>>, <<>>)

ToSplicedAct(wide) ==
    /\ MayCall(wide, "s")
    /\ \E start \in Starts(wide), deleteCount \in Counts(wide), elements \in Elements(wide) :
          /\ Room(wide, s.len + Len(elements))
          /\ Commit("ToSpliced", "s", "r",
                    ToSpliced(heap, s, start, deleteCount, elements),
                    start, deleteCount, elements, <<>>)

ToSortedAct(wide) ==
    /\ MayCall(wide, "s")
    /\ \E less \in Lesses(wide) :
          Commit("ToSorted", "s", "r", ToSorted(heap, s, less), less, 0, <<>>, <<>>)

ToReversedAct(wide) ==
    /\ MayCall(wide, "s")
    /\ \E less \in Lesses(wide) :
          Commit("ToReversed", "s", "r", ToReversed(heap, s, less), less, 0, <<>>, <<>>)

FilterAct(wide) ==
    /\ MayCall(wide, "s")
    /\ \E match \in MatchFns(wide) :
          Commit("Filter", "s", "r", Filter(heap, s, match), 0, 0, <<>>, <<match>>)

MapAct(wide) ==
    /\ MayCall(wide, "s")
    /\ \E change \in ChangeFns(wide) :
          Commit("Map", "s", "r", Map(heap, s, change), change, 0, <<>>, <<>>)

FindAct(wide) ==
    /\ MayCall(wide, "s")
    /\ \E match \in MatchFns(wide) :
          LET res == Find(heap, s, match)
          IN  Answer("Find", "s", match, res.e, res.found, 0)

FindLastAct(wide) ==
    /\ MayCall(wide, "s")
    /\ \E match \in MatchFns(wide) :
          LET res == FindLast(heap, s, match)
          IN  Answer("FindLast", "s", match, res.e, res.found, 0)

IncludesAct(wide) ==
    /\ MayCall(wide, "s")
    /\ \E match \in MatchFns(wide) :
          Answer("Includes", "s", match, Zero, Includes(heap, s, match), 0)

IndexOfAct(wide) ==
    /\ MayCall(wide, "s")
    /\ \E match \in MatchFns(wide) :
          Answer("IndexOf", "s", match, Zero, FALSE, IndexOf(heap, s, match))

LastIndexOfAct(wide) ==
    /\ MayCall(wide, "s")
    /\ \E match \in MatchFns(wide) :
          Answer("LastIndexOf", "s", match, Zero, FALSE, LastIndexOf(heap, s, match))

(***************************************************************************)
(* Specifications.                                                         *)
(***************************************************************************)
NoCall == [op |-> "init", tgt |-> "s", ok |-> TRUE,
           pre |-> <<>>,
           a |-> 0, b |-> 0, el |-> <<>>, items |-> <<>>, e |-> Zero,
           found |-> FALSE, idx |-> 0]

\* the receiver is constructed as a literal of at most n elements
InitUpTo(n, vals) ==
    /\ \E vs \in SeqsUpTo(n, vals) :
          LET lit == Literal(<<>>, vs)
          IN  heap = lit.h /\ s = lit.x
    /\ r = NoSlice
    /\ last = NoCall

Calls(wide) ==
    \/ \E tgt \in Receivers : PushAct(wide, tgt)
    \/ \E tgt \in Receivers : PopAct(wide, tgt)
    \/ \E tgt \in Receivers : ShiftAct(wide, tgt)
    \/ \E tgt \in Receivers : UnShiftAct(wide, tgt)
    \/ \E tgt \in Receivers : SliceAct(wide, tgt)
    \/ \E tgt \in Receivers : SpliceAct(wide, tgt)
    \/ \E tgt \in Receivers : MergeAct(wide, tgt)
    \/ \E tgt \in Receivers : SortAct(wide, tgt)
    \/ \E tgt \in Receivers : ReverseAct(wide, tgt)
    \/ ConcatAct(wide)
    \/ ToSlicedAct(wide)
    \/ ToSplicedAct(wide)
    \/ ToSortedAct(wide)
    \/ ToReversedAct(wide)
    \/ FilterAct(wide)
    \/ MapAct(wide)

\* the search methods assign to no slice: they add no state of the slices
\* to a session, and are applied in the single call
Searches(wide) ==
    \/ FindAct(wide)
    \/ FindLastAct(wide)
    \/ IncludesAct(wide)
    \/ IndexOfAct(wide)
    \/ LastIndexOfAct(wide)

\* a session: any sequence of calls on the receiver and on what was returned
Init == InitUpTo(SessionLen, SessionValues)

Next == Calls(FALSE)

Spec == Init /\ [][Next]_vars

\* one call, with the whole range of arguments, on any receiver
InitCall == InitUpTo(MaxLen, Values)

NextCall == Calls(TRUE) \/ Searches(TRUE)

SpecCall == InitCall /\ [][NextCall]_vars

(***************************************************************************)
(* Vocabulary of the properties.                                           *)
(***************************************************************************)
\* the sequence the last call produced: the receiver's contents after a
\* method that modifies it, the returned sequence's after a copying one
InPlaceOps == {"Push", "Pop", "Shift", "UnShift", "Slice", "Splice", "Merge",
               "Sort", "Reverse"}

CopyOps == {"ToSpliced", "ToSliced", "ToSorted", "ToReversed", "Filter", "Map",
            "Concat"}

Result == IF last.op \in CopyOps THEN Contents(r) ELSE Contents(Hdr(last.tgt))

\* seq without its elements at positions from+1 .. to, with ins in their place
Replaced(seq, from, to, ins) ==
    SubSeq(seq, 1, from) \o ins \o SubSeq(seq, to + 1, Len(seq))

\* start clamped to [0, n]
ClampStart(start, n) == IF start < 0 THEN 0 ELSE IF start > n THEN n ELSE start

\* min(cs + deleteCount, n) for deleteCount >= 0, in unbounded integers
ClampEnd(cs, deleteCount, n) ==
    IF deleteCount >= n - cs THEN n ELSE cs + deleteCount

Count(seq, v) == Cardinality({i \in 1..Len(seq) : seq[i] = v})

IsPermutation(a, b) == \A v \in Values : Count(a, v) = Count(b, v)

\* neither is less than the other
Equivalent(d, a, b) == ~Less(d, a, b) /\ ~Less(d, b, a)

\* the elements of seq equivalent to v, in the order seq has them
ClassOf(seq, d, v) ==
    LET InClass(w) == Equivalent(d, w, v)
    IN  SelectSeq(seq, InClass)

\* elements equal under less keep the relative order they had in input
KeepsClassOrder(out, input, d) ==
    \A v \in Values : ClassOf(out, d, v) = ClassOf(input, d, v)

Mirror(seq) == [i \in 1..Len(seq) |-> seq[Len(seq) + 1 - i]]

(***************************************************************************)
(* C1: for every start and every deleteCount >= 0, Splice leaves the       *)
(* receiver equal to s[0..cs) followed by elements followed by s[ce..n),   *)
(* cs = start clamped to [0, n], ce = min(cs + deleteCount, n).            *)
(***************************************************************************)
C1_SpliceClamps ==
    (last.op = "Splice" /\ last.b >= 0) =>
        LET n  == Len(last.pre)
            cs == ClampStart(last.a, n)
            ce == ClampEnd(cs, last.b, n)
        IN  last.ok /\ Contents(s) = Replaced(last.pre, cs, ce, last.el)

\* what does hold: the same, for the counts whose sum with the clamped
\* start does not overflow int
C1_SpliceClampsNoOverflow ==
    (last.op = "Splice" /\ last.b >= 0
        /\ last.b <= MaxInt - ClampStart(last.a, Len(last.pre))) =>
        LET n  == Len(last.pre)
            cs == ClampStart(last.a, n)
            ce == ClampEnd(cs, last.b, n)
        IN  last.ok /\ Contents(s) = Replaced(last.pre, cs, ce, last.el)

\* Splice(1, 100, x, y) on a 3-element sequence has replaced everything
\* from index 1 onward
C1_Witness ==
    /\ last.op = "Splice" /\ last.ok
    /\ Len(last.pre) = 3 /\ last.a = 1 /\ last.b = 100 /\ last.el = <<2, 0>>
    /\ Contents(s) = <<last.pre[1], 2, 0>>

(***************************************************************************)
(* C2: with a negative deleteCount, Splice and ToSpliced remove nothing    *)
(* and only insert: the result is s[0..cs) elements s[cs..n).              *)
(***************************************************************************)
C2_NegativeCountOnlyInserts ==
    (last.op \in {"Splice", "ToSpliced"} /\ last.b < 0) =>
        LET n  == Len(last.pre)
            cs == ClampStart(last.a, n)
        IN  last.ok /\ Result = Replaced(last.pre, cs, cs, last.el)

(***************************************************************************)
(* C3: Splice, ToSpliced, Slice and ToSliced never fail, whatever the      *)
(* integers they are given.                                                *)
(***************************************************************************)
C3_NeverFails ==
    last.op \in {"Splice", "ToSpliced", "Slice", "ToSliced"} => last.ok

(***************************************************************************)
(* C4: what ToSpliced returns is what Splice, given the same arguments,    *)
(* leaves in a copy of the receiver (both panic, or both give the same     *)
(* elements); likewise ToSliced and Slice.                                 *)
(***************************************************************************)
SpliceOfCopy(vs, start, deleteCount, elements) ==
    LET copy == Literal(<<>>, vs)
    IN  Splice(copy.h, copy.x, start, deleteCount, elements)

SliceOfCopy(vs, index) ==
    LET copy == Literal(<<>>, vs)
    IN  Slice(copy.h, copy.x, index)

SameOutcome(res) ==
    /\ last.ok = res.ok
    /\ last.ok => Contents(r) = Read(res.h, res.x)

C4_CopyFormsAgree ==
    /\ last.op = "ToSpliced" =>
          SameOutcome(SpliceOfCopy(last.pre, last.a, last.b, last.el))
    /\ last.op = "ToSliced" => SameOutcome(SliceOfCopy(last.pre, last.a))

\* ToSpliced(1, 1, x, y) has returned a 3-element receiver with its middle
\* element replaced
C4_Witness ==
    /\ last.op = "ToSpliced" /\ last.ok
    /\ Len(last.pre) = 3 /\ last.a = 1 /\ last.b = 1 /\ last.el = <<2, 0>>
    /\ Contents(r) = <<last.pre[1], 2, 0, last.pre[3]>>

(***************************************************************************)
(* C5: the copy-producing methods leave the receiver as it was, and what   *)
(* they return is independently owned: no later in-place method on the     *)
(* returned sequence changes the receiver, and none on the receiver        *)
(* changes the returned sequence.                                          *)
(***************************************************************************)
C5_Step ==
    /\ last'.op \in CopyOps => Contents(s)' = Contents(s)
    /\ (last'.op \in InPlaceOps /\ last'.tgt = "r") => Contents(s)' = Contents(s)
    /\ (last'.op \in InPlaceOps /\ last'.tgt = "s" /\ Has(r)) =>
          Contents(r)' = Contents(r)

C5_CopiesAreIndependent == [][C5_Step]_vars

\* a returned sequence has been sorted in place, which changed it, beside
\* a receiver that is not empty
C5_Witness ==
    /\ last.op = "Sort" /\ last.tgt = "r" /\ last.ok
    /\ Contents(r) # last.pre
    /\ s.len > 0

(***************************************************************************)
(* C6: Push, Pop, Shift and UnShift drive the sequence as a double-ended   *)
(* queue: Push(x) appends x, UnShift(x) puts x at index 0, Pop returns and *)
(* removes the last element, Shift returns and removes the first; Pop and  *)
(* Shift on an empty sequence return the zero value and leave it empty.    *)
(***************************************************************************)
C6_Deque ==
    LET now == Contents(Hdr(last.tgt))
        n   == Len(last.pre)
    IN  /\ last.op \in {"Push", "Pop", "Shift", "UnShift"} => last.ok
        /\ last.op = "Push" =>
              now = Append(last.pre, last.a) /\ Len(now) = n + 1
        /\ last.op = "UnShift" =>
              now = <<last.a>> \o last.pre /\ Len(now) = n + 1
        /\ (last.op = "Pop" /\ n > 0) =>
              last.e = last.pre[n] /\ now = SubSeq(last.pre, 1, n - 1)
              /\ Len(now) = n - 1
        /\ (last.op = "Shift" /\ n > 0) =>
              last.e = last.pre[1] /\ now = Tail(last.pre) /\ Len(now) = n - 1
        /\ (last.op \in {"Pop", "Shift"} /\ n = 0) =>
              last.e = Zero /\ now = <<>>

\* Pop has returned the last element of a 2-element receiver, whose array
\* keeps the cell as spare capacity
C6_Witness ==
    /\ last.op = "Pop" /\ last.tgt = "s" /\ last.ok
    /\ Len(last.pre) = 2 /\ last.e = last.pre[2] /\ last.e # Zero
    /\ Contents(s) = <<last.pre[1]>>
    /\ s.len < s.cap

(***************************************************************************)
(* C7: Sort and ToSorted give a permutation of the input in which every    *)
(* adjacent pair (prev, next) satisfies ~less(next, prev) and elements     *)
(* equal under less keep their relative input order.                       *)
(***************************************************************************)
Ascending(seq, d) ==
    \A i \in 1..(Len(seq) - 1) : ~Less(d, seq[i + 1], seq[i])

C7_SortStable ==
    last.op \in {"Sort", "ToSorted"} =>
        /\ last.ok
        /\ IsPermutation(Result, last.pre)
        /\ Ascending(Result, last.a)
        /\ KeepsClassOrder(Result, last.pre, last.a)

\* Sort has moved 2 behind 1 and 0, which are equal under less and stay in
\* their input order
C7_Witness ==
    /\ last.op = "Sort" /\ last.ok
    /\ last.a = 2 /\ last.pre = <<2, 1, 0>>
    /\ Contents(s) = <<1, 0, 2>>

(***************************************************************************)
(* C8: Reverse and ToReversed give the stable sort under the swapped       *)
(* predicate: a permutation in descending order in which elements equal    *)
(* under less keep their relative input order.                             *)
(***************************************************************************)
Descending(seq, d) ==
    \A i \in 1..(Len(seq) - 1) : ~Less(d, seq[i], seq[i + 1])

SwappedStableSort ==
    /\ last.ok
    /\ IsPermutation(Result, last.pre)
    /\ Descending(Result, last.a)
    /\ KeepsClassOrder(Result, last.pre, last.a)

\* Sort's result, physically reversed
SortThenMirror(vs, d) ==
    LET copy   == Literal(<<>>, vs)
        sorted == Sort(copy.h, copy.x, d)
    IN  Mirror(Read(sorted.h, sorted.x))

\* two elements of vs that differ and are equal under less
HasDistinctEquals(vs, d) ==
    \E i, j \in 1..Len(vs) : vs[i] # vs[j] /\ Equivalent(d, vs[i], vs[j])

\* some class of elements equal under less does not read the same backwards
HasUnevenClass(vs, d) ==
    \E v \in Values : ClassOf(vs, d, v) # Mirror(ClassOf(vs, d, v))

\* the claim as written: ... and it differs from the physical reversal of
\* Sort's result whenever the input has two distinct elements equal under less
C8_AsWritten ==
    last.op \in {"Reverse", "ToReversed"} =>
        /\ SwappedStableSort
        /\ HasDistinctEquals(last.pre, last.a) =>
              Result # SortThenMirror(last.pre, last.a)

\* as amended: it differs from the physical reversal of Sort's result
\* exactly when the elements of some class, in input order, do not read the
\* same backwards
C8_ReverseIsSwappedSort ==
    last.op \in {"Reverse", "ToReversed"} =>
        /\ SwappedStableSort
        /\ HasUnevenClass(last.pre, last.a) <=>
              Result # SortThenMirror(last.pre, last.a)

\* Reverse has put 2 first and kept 0 before 1, which are equal under less,
\* where the reversal of Sort's result has 1 before 0
C8_Witness ==
    /\ last.op = "Reverse" /\ last.ok
    /\ last.a = 2 /\ last.pre = <<0, 1, 2>>
    /\ Contents(s) = <<2, 0, 1>>
    /\ SortThenMirror(last.pre, last.a) = <<2, 1, 0>>

(***************************************************************************)
(* C9: Slice(index) removes, and ToSliced(index) returns the receiver      *)
(* without, at most one element: exactly the element at index when         *)
(* 0 <= index < n, the others keeping their order, and none when           *)
(* index >= n.                                                             *)
(***************************************************************************)
C9_SliceRemovesAtMostOne ==
    last.op \in {"Slice", "ToSliced"} =>
        LET n == Len(last.pre)
        IN  /\ last.ok
            /\ n - Len(Result) \in {0, 1}
            /\ (0 <= last.a /\ last.a < n) =>
                  Result = Replaced(last.pre, last.a, last.a + 1, <<>>)
            /\ last.a >= n => Result = last.pre

\* Slice(1) has removed the middle element of a 3-element receiver
C9_Witness ==
    /\ last.op = "Slice" /\ last.ok
    /\ Len(last.pre) = 3 /\ last.a = 1
    /\ Contents(s) = <<last.pre[1], last.pre[3]>>

(***************************************************************************)
(* C10: Concat returns a new sequence, the receiver's elements followed by *)
(* each argument's in argument order, and Merge with the same arguments    *)
(* leaves the receiver equal to that sequence; with no arguments Concat    *)
(* returns a copy and Merge leaves the receiver unchanged.                 *)
(***************************************************************************)
\* x and y share no array cell
Disjoint(x, y) ==
    x.cap = 0 \/ y.cap = 0 \/ x.arr # y.arr
       \/ x.off + x.cap <= y.off \/ y.off + y.cap <= x.off

C10_ConcatAndMerge ==
    /\ last.op = "Concat" =>
          /\ last.ok
          /\ Contents(r) = last.pre \o Flatten(last.items)
          /\ Contents(s) = last.pre
          /\ Disjoint(r, s)
    /\ last.op = "Merge" =>
          /\ last.ok
          /\ Contents(Hdr(last.tgt)) = last.pre \o Flatten(last.items)

\* Merge has appended a literal and then the receiver itself
C10_Witness ==
    /\ last.op = "Merge" /\ last.ok
    /\ Len(last.pre) = 2
    /\ last.items = <<<<2, 0>>, last.pre>>
    /\ Contents(s) = last.pre \o <<2, 0>> \o last.pre

(***************************************************************************)
(* C11: IndexOf(p) is the smallest index whose element satisfies p and     *)
(* LastIndexOf(p) the largest, each -1 when none does; Find(p) returns     *)
(* (s[IndexOf(p)], true) and FindLast(p) returns (s[LastIndexOf(p)], true) *)
(* when a match exists, both (zero value, false) otherwise; Includes(p) is *)
(* true exactly when IndexOf(p) is not -1.  None changes the receiver.     *)
(***************************************************************************)
SearchOps == {"Find", "FindLast", "Includes", "IndexOf", "LastIndexOf"}

\* the indices (from 0) of the elements of vs that p accepts
Hits(vs, p) == {i \in 0..(Len(vs) - 1) : Match(p, vs[i + 1])}

Smallest(S) == IF S = {} THEN -1 ELSE CHOOSE i \in S : \A j \in S : i <= j

Largest(S) == IF S = {} THEN -1 ELSE CHOOSE i \in S : \A j \in S : i >= j

C11_Searches ==
    last.op \in SearchOps =>
        LET p     == last.items[1]
            vs    == last.pre
            first == IndexOf(heap, s, p)
            final == LastIndexOf(heap, s, p)
        IN  /\ last.ok /\ Contents(s) = vs
            /\ last.op = "IndexOf" => last.idx = Smallest(Hits(vs, p))
            /\ last.op = "LastIndexOf" => last.idx = Largest(Hits(vs, p))
            /\ last.op = "Find" =>
                  IF Hits(vs, p) # {}
                  THEN last.found /\ first # -1 /\ last.e = vs[first + 1]
                  ELSE ~last.found /\ last.e = Zero
            /\ last.op = "FindLast" =>
                  IF Hits(vs, p) # {}
                  THEN last.found /\ final # -1 /\ last.e = vs[final + 1]
                  ELSE ~last.found /\ last.e = Zero
            /\ last.op = "Includes" => (last.found <=> first # -1)

\* LastIndexOf has passed over the first match and returned the last
C11_Witness ==
    /\ last.op = "LastIndexOf" /\ last.ok
    /\ last.pre = <<1, 0, 1>> /\ last.items = <<{1}>>
    /\ last.idx = 2
    /\ IndexOf(heap, s, {1}) = 0

(***************************************************************************)
(* C12: Map(f) returns a sequence of the receiver's length whose element i *)
(* is f(s[i]); Filter(p) returns exactly the elements that satisfy p, in   *)
(* their original relative order, so its length is at most len(s).         *)
(***************************************************************************)
Accepts(v) == Match(last.items[1], v)

C12_MapAndFilter ==
    /\ last.op = "Map" =>
          /\ last.ok
          /\ Len(Contents(r)) = Len(last.pre)
          /\ \A i \in 1..Len(last.pre) :
                Contents(r)[i] = Change(last.a, last.pre[i])
    /\ last.op = "Filter" =>
          /\ last.ok
          /\ Contents(r) = SelectSeq(last.pre, Accepts)
          /\ Len(Contents(r)) <= Len(last.pre)

\* Filter has dropped the middle element of three and kept the other two
\* in order
C12_Witness ==
    /\ last.op = "Filter" /\ last.ok
    /\ last.pre = <<2, 1, 0>> /\ last.items = <<{0, 2}>>
    /\ Contents(r) = <<2, 0>>

(***************************************************************************)
(* C13: on a non-empty sequence, Slice(index) and ToSliced(index) with a   *)
(* negative index clamp it to 0 and remove the first element, so that the  *)
(* length decreases by exactly 1; with an index >= length they remove      *)
(* nothing.                                                                *)
(***************************************************************************)
C13_NegativeIndexRemovesFirst ==
    (last.op \in {"Slice", "ToSliced"} /\ Len(last.pre) > 0) =>
        /\ last.a < 0 =>
              /\ last.ok
              /\ Result = Tail(last.pre)
              /\ Len(Result) = Len(last.pre) - 1
        /\ last.a >= Len(last.pre) =>
              /\ last.ok
              /\ Result = last.pre

\* ToSliced(-1) of three distinct elements has returned the last two
C13_Witness ==
    /\ last.op = "ToSliced" /\ last.ok
    /\ last.pre = <<0, 1, 2>> /\ last.a = -1
    /\ Contents(r) = <<1, 2>>
    /\ Contents(s) = last.pre

====
